---- MODULE Spec2Model ----
(***************************************************************************)
(* Downloads sorter (src/downloads_sorter.py): the watched directory, its  *)
(* bucket subdirectories, the tracked-name set, and the passes run by      *)
(* DownloadsSorter.start_monitoring.                                       *)
(*                                                                         *)
(* File names are strings.  A directory is a finite map from entry name to *)
(* an item [kind, origin, serial, locked, readable]: kind is "file" or     *)
(* "dir", origin is the name the item was created under and serial tells   *)
(* apart the items created under one name, locked says that the operating  *)
(* system refuses to rename or unlink the item (PermissionError), readable *)
(* that it lets the program open the item (a file) or list it (a folder).  *)
(* An item that is not locked is readable.                                 *)
(***************************************************************************)
EXTENDS Naturals, Sequences, FiniteSets, TLC

VARIABLES fs, existing_files, pc, made, last, handed, calls, cl_name, cl_ret,
          target, user_confirms, cleaner_pc, files, idx, successful, failed,
          attempted, deleted

\* the sorter as start_monitoring runs it
sorterVars == <<fs, existing_files, pc, made, last, handed, calls>>

\* one call of _get_file_category on its own: the name given, the value
\* returned
classifierVars == <<cl_name, cl_ret>>

\* the file cleaner (src/file_cleaner.py), a program of its own
cleanerVars ==
    <<target, user_confirms, cleaner_pc, files, idx, successful, failed, attempted, deleted>>

\* what the passes of the sorter leave alone
toolVars == <<classifierVars, cleanerVars>>

vars == <<sorterVars, toolVars>>

---------------------------------------------------------------------------
(* Bounds of the model. *)

\* items the outside world creates over a run
MaxItems == 3
\* of these, items the operating system refuses to move or delete
MaxLocked == 1
\* listed entries that vanish during one pass before they are moved
MaxGone == 1
\* calls of start_monitoring on one sorter
MaxCalls == 2
\* items the outside world creates over the life of a sorter whose
\* start_monitoring is called more than once
MaxItemsRestart == 2

\* names the outside world gives the items it creates
FileNames == {"a.png", "a_1.png", "a.zip", "w.xyz"}
FolderNames == {"a", "gcode drop"}
PoolNames == FileNames \cup FolderNames

---------------------------------------------------------------------------
(* Strings: pathlib's suffix and stem, str.lower, the f-string counter. *)

Char(s, i) == SubSeq(s, i, i)

UpperCase == "ABCDEFGHIJKLMNOPQRSTUVWXYZ"
LowerCase == "abcdefghijklmnopqrstuvwxyz"

\* str.lower on one character: the letter's lower case, any other character
\* as it is
LowerTable ==
    [c \in {Char(UpperCase, i) : i \in 1..Len(UpperCase)} |->
        Char(LowerCase, CHOOSE i \in 1..Len(UpperCase) : Char(UpperCase, i) = c)]

LowerChar(c) == IF c \in DOMAIN LowerTable THEN LowerTable[c] ELSE c

RECURSIVE Lower(_)
Lower(s) == IF s = "" THEN "" ELSE LowerChar(Char(s, 1)) \o Lower(SubSeq(s, 2, Len(s)))

\* str.rfind('.'), 1-based; 0 when there is no dot
RFindDot(s) ==
    LET dots == {i \in 1..Len(s) : Char(s, i) = "."}
    IN  IF dots = {} THEN 0 ELSE CHOOSE i \in dots : \A j \in dots : j <= i

\* PurePath.suffix: the last dot and what follows it, unless that dot is the
\* first or the last character of the name
SuffixOf(name) ==
    LET i == RFindDot(name)
    IN  IF 1 < i /\ i < Len(name) THEN SubSeq(name, i, Len(name)) ELSE ""

\* PurePath.stem: the name without its suffix
StemOf(name) ==
    LET i == RFindDot(name)
    IN  IF 1 < i /\ i < Len(name) THEN SubSeq(name, 1, i - 1) ELSE name

\* the three values on the names of the pool, computed once; Suffix, Stem
\* and Extension read them there and compute them for every other name
NameTable ==
    [n \in PoolNames |->
        [suffix |-> SuffixOf(n), stem |-> StemOf(n), extension |-> Lower(SuffixOf(n))]]

Suffix(name) == IF name \in PoolNames THEN NameTable[name].suffix ELSE SuffixOf(name)

Stem(name) == IF name \in PoolNames THEN NameTable[name].stem ELSE StemOf(name)

\* (for C11) the suffix compared as it is written, .lower() left out
ExtensionAsWritten(name) == IF name \in PoolNames THEN NameTable[name].suffix ELSE SuffixOf(name)

\* path.suffix.lower()
Extension(name) ==
    IF name \in PoolNames THEN NameTable[name].extension ELSE Lower(SuffixOf(name))

Digits == "0123456789"

\* str(counter) inside the f-string
RECURSIVE ToStr(_)
ToStr(k) ==
    IF k < 10 THEN Char(Digits, k + 1)
    ELSE ToStr(k \div 10) \o Char(Digits, (k % 10) + 1)

---------------------------------------------------------------------------
(* Configuration set by DownloadsSorter.__init__. *)

\* the keys of self.categories in insertion order
CategoryOrder == <<"Images", "Zip_Files", "STEP_Files", "3MF_Files", "PDFs">>

CategoryNames == {CategoryOrder[i] : i \in 1..Len(CategoryOrder)}

ArchiveExtensions ==
    {".zip", ".rar", ".7z", ".tar", ".gz", ".bz2", ".xz", ".lzma", ".cab", ".iso"}

categories ==
    [c \in CategoryNames |->
        CASE c = "Images" ->
               {".jpg", ".jpeg", ".png", ".gif", ".bmp", ".tiff", ".webp", ".svg",
                ".ico", ".heic"}
          [] c = "Zip_Files" -> ArchiveExtensions
          [] c = "STEP_Files" -> {".step", ".stp", ".stl", ".obj", ".3ds", ".dae", ".fbx"}
          [] c = "3MF_Files" -> {".3mf"}
          [] c = "PDFs" -> {".pdf"}]

\* the literal of _scan_and_sort_existing_files and _process_new_files
ignored_folders == {"Rogue_Folders", "Others", "gcode drop"}

\* the subdirectories _create_category_directories makes
Buckets == CategoryNames \cup {"Rogue_Folders", "Others"}

\* the watched directory itself
Top == "."

Dirs == {Top} \cup Buckets

---------------------------------------------------------------------------
(* Finite maps. *)

Put(m, n, v) == [x \in (DOMAIN m) \cup {n} |-> IF x = n THEN v ELSE m[x]]

Del(m, n) == [x \in (DOMAIN m) \ {n} |-> m[x]]

Empty == [x \in {} |-> 0]

is_file(dir, n) == n \in DOMAIN dir /\ dir[n].kind = "file"

is_dir(dir, n) == n \in DOMAIN dir /\ dir[n].kind = "dir"

NewItem(kind, origin, serial, locked, readable) ==
    [kind |-> kind, origin |-> origin, serial |-> serial, locked |-> locked,
     readable |-> readable]

---------------------------------------------------------------------------
(* DownloadsSorter: classification and the two movers. *)

\* _get_file_category: the first category, in dict order, holding the
\* lower-cased suffix; "Other" when none does
_get_file_category(file_path) ==
    LET extension == Extension(file_path)
        hits == {i \in 1..Len(CategoryOrder) : extension \in categories[CategoryOrder[i]]}
    IN  IF hits = {} THEN "Other"
        ELSE CategoryOrder[CHOOSE i \in hits : \A j \in hits : i <= j]

\* (for C1) the conflict loop left out: the first candidate is taken as it is
FreeNameFirst(dir, destination, original_name, original_ext, counter) == destination

\* the while loop shared by both movers: the first of name, base_1 ext,
\* base_2 ext, ... that does not exist in dir
RECURSIVE FreeName(_, _, _, _, _)
FreeName(dir, destination, original_name, original_ext, counter) ==
    IF destination \notin DOMAIN dir THEN destination
    ELSE FreeName(dir, original_name \o "_" \o ToStr(counter) \o original_ext,
                  original_name, original_ext, counter + 1)

\* shutil.move of a top-level entry to bucket/dest, dest not existing.  It
\* tries os.rename first.  When the source is gone the rename and the
\* fallback both raise FileNotFoundError and nothing is written.  When the
\* system refuses the rename (PermissionError on a locked item) it falls
\* back to copy2 + os.unlink (a file) or copytree + rmtree (a folder).  On
\* a source the program may read, the copy is written to dest, then
\* removing the source raises.  On a source it may not read, opening the
\* file (copy2) or listing the folder (copytree, before it creates dest)
\* raises and nothing is written.
CanMove(f, name) == name \in DOMAIN f[Top] /\ ~f[Top][name].locked

Renamed(f, name, bucket, dest) ==
    [f EXCEPT ![Top] = Del(@, name), ![bucket] = Put(@, dest, f[Top][name])]

\* the copy the fallback writes: the program's own, neither locked nor
\* unreadable
CopyOf(item) == [item EXCEPT !.locked = FALSE, !.readable = TRUE]

\* the fallback on a locked source that can be read: the copy is in the
\* bucket and the source is where it was
Copied(f, name, bucket, dest) ==
    [f EXCEPT ![bucket] = Put(@, dest, CopyOf(f[Top][name]))]

\* the file system shutil.move leaves when it raises
MoveFailed(f, name, bucket, dest) ==
    IF name \in DOMAIN f[Top] /\ f[Top][name].readable
    THEN Copied(f, name, bucket, dest)
    ELSE f

\* the result of a mover: the file system afterwards, the value returned
\* (ok), whether an exception left the mover (raised), and where the item
\* went
MoveResult(f, ok, raised, bucket, dest) ==
    [fs |-> f, ok |-> ok, raised |-> raised, bucket |-> bucket, dest |-> dest]

\* (for C9) _move_file without its try: a failed move raises
MoveFileRaises(f, file_path, category) ==
    LET bucket == IF category = "Other" THEN "Others" ELSE category
        destination == FreeName(f[bucket], file_path, Stem(file_path),
                                Suffix(file_path), 1)
    IN  IF CanMove(f, file_path)
        THEN MoveResult(Renamed(f, file_path, bucket, destination), TRUE, FALSE,
                        bucket, destination)
        ELSE MoveResult(MoveFailed(f, file_path, bucket, destination), FALSE, TRUE,
                        bucket, "")

\* _move_file: both branches ("Other" to Others/, a category to its
\* directory) run the same conflict loop and move; except Exception turns
\* any failure into the value False, and leaves what shutil.move had
\* written by then
_move_file(f, file_path, category) ==
    LET bucket == IF category = "Other" THEN "Others" ELSE category
        destination == FreeName(f[bucket], file_path, Stem(file_path),
                                Suffix(file_path), 1)
    IN  IF CanMove(f, file_path)
        THEN MoveResult(Renamed(f, file_path, bucket, destination), TRUE, FALSE,
                        bucket, destination)
        ELSE MoveResult(MoveFailed(f, file_path, bucket, destination), FALSE, FALSE,
                        bucket, "")

\* (for C17) the folder mover numbering as _move_file does, before the
\* last dot of the name
MoveFolderCounterBeforeSuffix(f, folder_path) ==
    LET destination == FreeName(f["Rogue_Folders"], folder_path, Stem(folder_path),
                                Suffix(folder_path), 1)
    IN  IF CanMove(f, folder_path)
        THEN MoveResult(Renamed(f, folder_path, "Rogue_Folders", destination), TRUE,
                        FALSE, "Rogue_Folders", destination)
        ELSE MoveResult(MoveFailed(f, folder_path, "Rogue_Folders", destination),
                        FALSE, FALSE, "Rogue_Folders", "")

\* _move_folder_to_rogue: the counter goes after the whole folder name
_move_folder_to_rogue(f, folder_path) ==
    LET destination == FreeName(f["Rogue_Folders"], folder_path, folder_path, "", 1)
    IN  IF CanMove(f, folder_path)
        THEN MoveResult(Renamed(f, folder_path, "Rogue_Folders", destination), TRUE,
                        FALSE, "Rogue_Folders", destination)
        ELSE MoveResult(MoveFailed(f, folder_path, "Rogue_Folders", destination),
                        FALSE, FALSE, "Rogue_Folders", "")

\* (for C6) the folder test without the ignore list
ShouldQuarantineAnyNonCategory(folder_name) == folder_name \notin CategoryNames

\* the folder test of both passes: not a category name, not ignored
ShouldQuarantine(folder_name) ==
    folder_name \notin CategoryNames /\ folder_name \notin ignored_folders

---------------------------------------------------------------------------
(* A pass threads a record st through its loop:                            *)
(*   fs, existing  the file system and self.existing_files                 *)
(*   res           name |-> the MoveResult of the mover called on it       *)
(*   raised        an exception left the loop body (the loop has no try)   *)

\* gone maps the listed entries that the outside world deletes during the
\* pass to the moment it does: "early", after the listing and before the
\* loop body tests the entry, or "late", after that test and before the
\* mover renames it
Early(gone) == {n \in DOMAIN gone : gone[n] = "early"}

\* the entries a mover was called on after the outside world had deleted them
Late(gone, res) == {n \in DOMAIN res : n \in DOMAIN gone /\ gone[n] = "late"}

\* the calls of _move_file so far, those of a pass with the results res
\* added
Handed(h, res) ==
    [n \in DOMAIN h |->
        h[n] + (IF n \in DOMAIN res /\ res[n].item.kind = "file" THEN 1 ELSE 0)]

Vanished(f, name, gone) ==
    IF name \in DOMAIN gone /\ gone[name] = "late"
    THEN [f EXCEPT ![Top] = Del(@, name)] ELSE f

\* the loop variable holds a path: is_file() and is_dir() are False of an
\* entry deleted since the listing
Examined(st, name, gone) ==
    IF name \in Early(gone) THEN [st EXCEPT !.fs = [@ EXCEPT ![Top] = Del(@, name)]]
    ELSE st

\* the call of a mover on the entry name, as the pass records it: the item,
\* the value returned, the bucket aimed at with its contents when the mover
\* was called (pre) and when it returned (post), and the name given there
AfterMove(st, name, r) ==
    [st EXCEPT !.fs = r.fs,
               !.res = Put(@, name, [item |-> st.fs[Top][name], ok |-> r.ok,
                                     bucket |-> r.bucket, pre |-> st.fs[r.bucket],
                                     post |-> r.fs[r.bucket], dest |-> r.dest]),
               !.raised = r.raised]

\* (for C4) the category test of the full scan inverted: only files of no
\* category are handed to _move_file
ScanItemInverted(st0, name, gone) ==
    LET st == Examined(st0, name, gone) IN
    IF is_file(st.fs[Top], name)
    THEN IF name \notin st.existing
         THEN LET category == _get_file_category(name)
                  moved == IF category = "Other"
                           THEN AfterMove(st, name,
                                          _move_file(Vanished(st.fs, name, gone), name, category))
                           ELSE st
              IN  IF moved.raised THEN moved
                  ELSE [moved EXCEPT !.existing = @ \cup {name}]
         ELSE st
    ELSE IF is_dir(st.fs[Top], name)
         THEN IF ShouldQuarantine(name)
              THEN AfterMove(st, name, _move_folder_to_rogue(Vanished(st.fs, name, gone), name))
              ELSE st
         ELSE st

\* (for C15) the full scan tracking a name only when it moved the file
ScanItemTracksMoved(st0, name, gone) ==
    LET st == Examined(st0, name, gone) IN
    IF is_file(st.fs[Top], name)
    THEN IF name \notin st.existing
         THEN LET category == _get_file_category(name)
                  moved == IF category # "Other"
                           THEN AfterMove(st, name,
                                          _move_file(Vanished(st.fs, name, gone), name, category))
                           ELSE st
              IN  IF name \in DOMAIN moved.res /\ moved.res[name].ok
                  THEN [moved EXCEPT !.existing = @ \cup {name}]
                  ELSE moved
         ELSE st
    ELSE IF is_dir(st.fs[Top], name)
         THEN IF ShouldQuarantine(name)
              THEN AfterMove(st, name, _move_folder_to_rogue(Vanished(st.fs, name, gone), name))
              ELSE st
         ELSE st

\* one iteration of the loop of _scan_and_sort_existing_files
ScanItem(st0, name, gone) ==
    LET st == Examined(st0, name, gone) IN
    IF is_file(st.fs[Top], name)
    THEN IF name \notin st.existing
         THEN LET category == _get_file_category(name)
                  moved == IF category # "Other"
                           THEN AfterMove(st, name,
                                          _move_file(Vanished(st.fs, name, gone), name, category))
                           ELSE st
              IN  IF moved.raised THEN moved
                  ELSE [moved EXCEPT !.existing = @ \cup {name}]
         ELSE st
    ELSE IF is_dir(st.fs[Top], name)
         THEN IF ShouldQuarantine(name)
              THEN AfterMove(st, name, _move_folder_to_rogue(Vanished(st.fs, name, gone), name))
              ELSE st
         ELSE st

\* (for C14) the incremental scan treating a new file as the full scan does:
\* a file of no category is left where it is
ProcessItemLikeFullScan(st, name, gone) == ScanItem(st, name, gone)

\* one iteration of the loop of _process_new_files
ProcessItem(st0, name, gone) ==
    LET st == Examined(st0, name, gone) IN
    IF is_file(st.fs[Top], name)
    THEN LET category == _get_file_category(name)
             moved == AfterMove(st, name,
                                _move_file(Vanished(st.fs, name, gone), name, category))
         IN  IF moved.raised THEN moved
             ELSE [moved EXCEPT !.existing = @ \cup {name}]
    ELSE IF is_dir(st.fs[Top], name)
         THEN IF ShouldQuarantine(name)
              THEN AfterMove(st, name, _move_folder_to_rogue(Vanished(st.fs, name, gone), name))
              ELSE st
         ELSE st

\* the for loops, over the entries in the order the directory gave them; an
\* exception ends the loop
RECURSIVE ScanLoop(_, _, _, _)
ScanLoop(st, order, i, gone) ==
    IF i > Len(order) \/ st.raised THEN st
    ELSE ScanLoop(ScanItem(st, order[i], gone), order, i + 1, gone)

RECURSIVE ProcessLoop(_, _, _, _)
ProcessLoop(st, order, i, gone) ==
    IF i > Len(order) \/ st.raised THEN st
    ELSE ProcessLoop(ProcessItem(st, order[i], gone), order, i + 1, gone)

\* _get_current_files: the names of the regular files at the top level
_get_current_files(f) == {n \in DOMAIN f[Top] : f[Top][n].kind = "file"}

---------------------------------------------------------------------------
(* _cleanup_redundant_zips.  zs threads the loop: fs, the names examined   *)
(* (seen), the archives unlinked (deleted), and whether unlink raised,     *)
(* which the one try around the whole loop catches: the loop ends there.   *)

IsArchive(dir, n) == is_file(dir, n) /\ Extension(n) \in ArchiveExtensions

\* one iteration of the loop of _cleanup_redundant_zips
CleanupItem(zs, item) ==
    LET dir == zs.fs["Zip_Files"]
        seen == [zs EXCEPT !.seen = @ \cup {item}]
    IN  IF IsArchive(dir, item) /\ is_dir(dir, Stem(item))
        THEN IF dir[item].locked
             THEN [seen EXCEPT !.error = TRUE]
             ELSE [seen EXCEPT !.fs = [@ EXCEPT !["Zip_Files"] = Del(@, item)],
                               !.deleted = @ \cup {item}]
        ELSE seen

RECURSIVE CleanupLoop(_, _, _)
CleanupLoop(zs, order, i) ==
    IF i > Len(order) \/ zs.error THEN zs
    ELSE CleanupLoop(CleanupItem(zs, order[i]), order, i + 1)

_cleanup_redundant_zips(f, order) ==
    CleanupLoop([fs |-> f, seen |-> {}, deleted |-> {}, error |-> FALSE], order, 1)

---------------------------------------------------------------------------
(* Enumeration orders.  os.listdir and set iteration give the entries in   *)
(* an order the program does not control.                                  *)

Perms(S) ==
    {p \in [1..Cardinality(S) -> S] : \A i, j \in 1..Cardinality(S) : p[i] = p[j] => i = j}

\* the directories the constructor made, in the order it made them
BucketOrder == CategoryOrder \o <<"Rogue_Folders", "Others">>

\* the orders of a listing of the watched directory explored here: the
\* constructor's seven directories first, every other entry in any order
ScanOrders(dir) == {BucketOrder \o p : p \in Perms((DOMAIN dir) \ Buckets)}

\* the listed entries that may vanish during one pass
GoneSets(S) ==
    UNION {[g -> {"early", "late"}] : g \in {h \in SUBSET S : Cardinality(h) <= MaxGone}}

---------------------------------------------------------------------------
(* State.                                                                  *)
(*   fs              directory |-> (entry name |-> item), for the watched  *)
(*                   directory "." and the seven buckets                   *)
(*   existing_files  self.existing_files                                   *)
(*   pc              start    constructed, start_monitoring not yet called *)
(*                   idle     in the loop of start_monitoring, between two *)
(*                            turns                                        *)
(*                   stopped  the loop has ended, start_monitoring has     *)
(*                            returned                                     *)
(*                   crashed  an exception left start_monitoring           *)
(*                   interrupted  Ctrl+C during the full scan:             *)
(*                            KeyboardInterrupt left start_monitoring      *)
(*   made            name |-> how many items the outside world has created *)
(*                   under that name                                       *)
(*   handed          file name |-> how many times the passes have called   *)
(*                   _move_file on it (a record of the run, not a field of *)
(*                   the sorter)                                           *)
(*   calls           how many times start_monitoring has been called       *)
(*   last            what the latest pass did, until the outside world     *)
(*                   changes a directory again: the pass (op), the top     *)
(*                   level as listed, the names tracked when it began,     *)
(*                   the entries deleted from outside before the loop      *)
(*                   body tested them (early) or between that test and the *)
(*                   mover's rename (late), the movers' results (res),     *)
(*                   whether an exception ended the loop (raised), and     *)
(*                   the reconciler's run                                  *)

NoPass ==
    [op |-> "none", listed |-> Empty, tracked |-> {}, early |-> {}, late |-> {},
     res |-> Empty,
     raised |-> FALSE, zipBefore |-> Empty, zipSeen |-> {}, zipDeleted |-> {}, zipError |-> FALSE]

\* the bucket the sorter files a name under
BucketOf(category) == IF category = "Other" THEN "Others" ELSE category

\* where the outside world creates an item of a given kind and name: at the
\* top level (a download), and in each bucket where the sorter would meet
\* it: a file in the bucket its name is sorted into (left by an earlier
\* run), a folder in Rogue_Folders when the sorter quarantines that name,
\* and in Zip_Files when it is the stem of an archive name (the archive
\* extracted in place)
ArrivalDirs(kind, n) ==
    IF kind = "file" THEN {Top, BucketOf(_get_file_category(n))}
    ELSE {Top} \cup (IF ShouldQuarantine(n) THEN {"Rogue_Folders"} ELSE {})
               \cup (IF \E a \in FileNames :
                           Extension(a) \in ArchiveExtensions /\ Stem(a) = n
                     THEN {"Zip_Files"} ELSE {})

Arrivals ==
    {<<kind, n, d>> \in {"file", "dir"} \X PoolNames \X Dirs :
        /\ n \in (IF kind = "file" THEN FileNames ELSE FolderNames)
        /\ d \in ArrivalDirs(kind, n)}

\* the directories in which the sorter renames or unlinks entries: a refusal
\* elsewhere is never observed
Lockable == {Top, "Zip_Files"}

\* a path that does not exist
NoTarget ==
    [exists |-> FALSE, isdir |-> FALSE, listable |-> FALSE, searchable |-> FALSE,
     entries |-> Empty]

\* file_cleaner.main not yet run, on a given path, the user inclined or
\* not to confirm
CleanerInit(directory, inclined) ==
    /\ target = directory
    /\ user_confirms = inclined
    /\ cleaner_pc = "start"
    /\ files = <<>>
    /\ idx = 0
    /\ successful = 0
    /\ failed = 0
    /\ attempted = <<>>
    /\ deleted = {}

\* after __init__: the watched directory holds the seven directories
\* _create_category_directories made, nothing is tracked
SorterInit ==
    /\ fs = [d \in Dirs |->
               IF d = Top THEN [b \in Buckets |-> NewItem("dir", b, 0, FALSE, TRUE)] ELSE Empty]
    /\ existing_files = {}
    /\ pc = "start"
    /\ made = [n \in PoolNames |-> 0]
    /\ last = NoPass
    /\ handed = [n \in FileNames |-> 0]
    /\ calls = 0

\* the program as main starts it: _get_file_category not yet called
Init ==
    /\ SorterInit
    /\ cl_name = ""
    /\ cl_ret = ""
    /\ CleanerInit(NoTarget, FALSE)

RECURSIVE Sum(_, _)
Sum(f, S) == IF S = {} THEN 0 ELSE LET x == CHOOSE x \in S : TRUE IN f[x] + Sum(f, S \ {x})

LockedItems(f) == {<<d, n>> \in Lockable \X (DOMAIN made) : n \in DOMAIN f[d] /\ f[d][n].locked}

\* a download, a copy, an extraction: a new item in some directory, whether
\* start_monitoring is running or not, the outside world creating up to max
\* items
ArriveUpTo(max) ==
    /\ Sum(made, DOMAIN made) < max
    /\ \E a \in Arrivals, locked \in BOOLEAN, readable \in BOOLEAN :
         LET kind == a[1]
             n == a[2]
             d == a[3]
         IN  /\ n \notin DOMAIN fs[d]
             /\ locked => d \in Lockable /\ Cardinality(LockedItems(fs)) < MaxLocked
             /\ ~locked => readable
             /\ fs' = [fs EXCEPT ![d] =
                               Put(@, n, NewItem(kind, n, made[n] + 1, locked, readable))]
             /\ made' = [made EXCEPT ![n] = @ + 1]
    /\ last' = NoPass
    /\ UNCHANGED <<existing_files, pc, handed, calls>>
    /\ UNCHANGED toolVars

Arrive == ArriveUpTo(MaxItems)

\* the refusal to move or delete an item ends, whether start_monitoring is
\* running or not
Unlock ==
    /\ \E d \in Lockable : \E n \in DOMAIN fs[d] :
         /\ fs[d][n].locked
         /\ fs' = [fs EXCEPT ![d][n].locked = FALSE, ![d][n].readable = TRUE]
    /\ last' = NoPass
    /\ UNCHANGED <<existing_files, pc, made, handed, calls>>
    /\ UNCHANGED toolVars

\* _scan_and_sort_existing_files, and what start_monitoring does with its
\* outcome: the call is outside the try, so what it raises leaves
\* start_monitoring
RunFullScan ==
    /\ \E order \in ScanOrders(fs[Top]), gone \in GoneSets((DOMAIN fs[Top]) \ Buckets) :
         \E st \in {ScanLoop([fs |-> fs, existing |-> existing_files, res |-> Empty,
                             raised |-> FALSE], order, 1, gone)} :
             /\ fs' = st.fs
             /\ existing_files' = st.existing
             /\ pc' = IF st.raised THEN "crashed" ELSE "idle"
             /\ handed' = Handed(handed, st.res)
             /\ last' = [NoPass EXCEPT !.op = "full", !.listed = fs[Top],
                                       !.tracked = existing_files, !.early = Early(gone),
                                       !.late = Late(gone, st.res),
                                       !.res = st.res, !.raised = st.raised]
    /\ UNCHANGED made
    /\ UNCHANGED toolVars

\* iterdir raises in _scan_and_sort_existing_files (the watched directory is
\* gone or unreadable): nothing catches it inside start_monitoring
ScanEnumFails ==
    /\ pc' = "crashed"
    /\ last' = [NoPass EXCEPT !.op = "scanfail"]
    /\ UNCHANGED <<fs, existing_files, made, handed>>
    /\ UNCHANGED toolVars

\* start_monitoring, called by main, up to its loop
FullScan == pc = "start" /\ calls' = calls + 1 /\ RunFullScan

FullScanEnumFails == pc = "start" /\ calls' = calls + 1 /\ ScanEnumFails

\* (for C16) _cleanup_redundant_zips called at the head of
\* _process_new_files, before the new files are placed
TickCleansFirst ==
    /\ pc = "idle"
    /\ \E zorder \in Perms(DOMAIN fs["Zip_Files"]) :
         \E zs \in {_cleanup_redundant_zips(fs, zorder)},
            new_files \in {_get_current_files(fs) \ existing_files} :
             \E order \in Perms(new_files), gone \in GoneSets(new_files) :
               \E st \in {ProcessLoop([fs |-> zs.fs, existing |-> existing_files,
                                      res |-> Empty, raised |-> FALSE], order, 1, gone)} :
                   /\ fs' = st.fs
                   /\ existing_files' = st.existing
                   /\ pc' = "idle"
                   /\ handed' = Handed(handed, st.res)
                   /\ last' = [op |-> "incr", listed |-> fs[Top],
                               tracked |-> existing_files, early |-> Early(gone),
                               late |-> Late(gone, st.res),
                               res |-> st.res, raised |-> st.raised,
                               zipBefore |-> fs["Zip_Files"],
                               zipSeen |-> zs.seen, zipDeleted |-> zs.deleted,
                               zipError |-> zs.error]
    /\ UNCHANGED <<made, calls>>
    /\ UNCHANGED toolVars

\* one turn of the while loop: _get_current_files, _process_new_files (its
\* loop, then _cleanup_redundant_zips).  The try around the while loop
\* catches what they raise, logs it, and start_monitoring returns.
Tick ==
    /\ pc = "idle"
    /\ LET new_files == _get_current_files(fs) \ existing_files
       IN  \E order \in Perms(new_files), gone \in GoneSets(new_files) :
             \E st \in {ProcessLoop([fs |-> fs, existing |-> existing_files,
                                    res |-> Empty, raised |-> FALSE], order, 1, gone)} :
                 \E zorder \in Perms(DOMAIN st.fs["Zip_Files"]) :
                   \E zs \in {IF st.raised
                             THEN [fs |-> st.fs, seen |-> {}, deleted |-> {},
                                   error |-> FALSE]
                             ELSE _cleanup_redundant_zips(st.fs, zorder)} :
                       /\ fs' = zs.fs
                       /\ existing_files' = st.existing
                       /\ pc' = IF st.raised THEN "stopped" ELSE "idle"
                       /\ handed' = Handed(handed, st.res)
                       /\ last' = [op |-> "incr", listed |-> fs[Top],
                                   tracked |-> existing_files, early |-> Early(gone),
                                   late |-> Late(gone, st.res),
                                   res |-> st.res, raised |-> st.raised,
                                   zipBefore |-> st.fs["Zip_Files"],
                                   zipSeen |-> zs.seen, zipDeleted |-> zs.deleted,
                                   zipError |-> zs.error]
    /\ UNCHANGED <<made, calls>>
    /\ UNCHANGED toolVars

\* iterdir raises in _get_current_files: except Exception, around the while
\* loop, logs the error and the loop is over
TickEnumFails ==
    /\ pc = "idle"
    /\ pc' = "stopped"
    /\ last' = [NoPass EXCEPT !.op = "tickfail"]
    /\ UNCHANGED <<fs, existing_files, made, handed, calls>>
    /\ UNCHANGED toolVars

\* where Ctrl+C arrives in the body of the loop of a pass: between two
\* entries; inside the mover, which has been called and has not yet come
\* to shutil.move; or after the mover has returned and before the name is
\* added to existing_files
CutPoints == {"between", "in_mover", "returned"}

\* Ctrl+C while the loop sleeps: except KeyboardInterrupt logs and
\* start_monitoring returns
Interrupt ==
    /\ pc = "idle"
    /\ pc' = "stopped"
    /\ UNCHANGED <<fs, existing_files, made, last, handed, calls>>
    /\ UNCHANGED toolVars

\* Ctrl+C during _scan_and_sort_existing_files.  KeyboardInterrupt is no
\* Exception: the movers do not catch it, and the call is outside the try
\* of start_monitoring.  The loop has done k entries, and Ctrl+C arrives at
\* one of CutPoints in the work on the next one.
RunFullScanInterrupted ==
    /\ \E order \in ScanOrders(fs[Top]), gone \in GoneSets((DOMAIN fs[Top]) \ Buckets),
          cut \in CutPoints :
         \E k \in Len(BucketOrder)..(Len(order) - (IF cut = "between" THEN 0 ELSE 1)) :
           \E done \in {ScanLoop([fs |-> fs, existing |-> existing_files, res |-> Empty,
                                  raised |-> FALSE], SubSeq(order, 1, k), 1, gone)} :
           \E next \in {IF cut = "between" THEN done
                        ELSE ScanItem(done, order[k + 1], gone)} :
           \E st \in {IF cut = "returned"
                     THEN [next EXCEPT !.existing = done.existing]
                     ELSE done} :
               /\ cut = "in_mover" => order[k + 1] \in DOMAIN next.res
               /\ fs' = st.fs
               /\ existing_files' = st.existing
               /\ pc' = "interrupted"
               /\ handed' = Handed(handed, next.res)
               /\ last' = [NoPass EXCEPT !.op = "fullcut", !.listed = fs[Top],
                                         !.tracked = existing_files,
                                         !.early = Early(gone),
                                         !.late = Late(gone, st.res), !.res = st.res]
    /\ UNCHANGED made
    /\ UNCHANGED toolVars

FullScanInterrupted == pc = "start" /\ calls' = calls + 1 /\ RunFullScanInterrupted

\* Ctrl+C during a turn of the loop: except KeyboardInterrupt, around the
\* while loop, logs and start_monitoring returns.  The loop of
\* _process_new_files has done k entries (cut as above); when it has done
\* them all, the loop of _cleanup_redundant_zips, which does not catch
\* KeyboardInterrupt either, has done j entries.
TickInterrupted ==
    /\ pc = "idle"
    /\ LET new_files == _get_current_files(fs) \ existing_files
       IN  \E order \in Perms(new_files), gone \in GoneSets(new_files), cut \in CutPoints :
             \E k \in 0..(Len(order) - (IF cut = "between" THEN 0 ELSE 1)) :
               \E done \in {ProcessLoop([fs |-> fs, existing |-> existing_files,
                                        res |-> Empty, raised |-> FALSE],
                                       SubSeq(order, 1, k), 1, gone)} :
               \E next \in {IF cut = "between" THEN done
                            ELSE ProcessItem(done, order[k + 1], gone)} :
               \E st \in {IF cut = "returned"
                         THEN [next EXCEPT !.existing = done.existing]
                         ELSE done} :
                   \E zorder \in Perms(DOMAIN st.fs["Zip_Files"]) :
                     \E j \in 0..(IF k = Len(order) THEN Len(zorder) ELSE 0) :
                       \E zs \in {_cleanup_redundant_zips(st.fs, SubSeq(zorder, 1, j))} :
                           /\ cut = "in_mover" => order[k + 1] \in DOMAIN next.res
                           /\ fs' = zs.fs
                           /\ existing_files' = st.existing
                           /\ pc' = "stopped"
                           /\ handed' = Handed(handed, next.res)
                           /\ last' = [op |-> "incrcut", listed |-> fs[Top],
                                       tracked |-> existing_files, early |-> Early(gone),
                                       late |-> Late(gone, st.res),
                                       res |-> st.res, raised |-> FALSE,
                                       zipBefore |-> st.fs["Zip_Files"],
                                       zipSeen |-> zs.seen, zipDeleted |-> zs.deleted,
                                       zipError |-> zs.error]
    /\ UNCHANGED <<made, calls>>
    /\ UNCHANGED toolVars

Next ==
    \/ Arrive
    \/ Unlock
    \/ FullScan
    \/ FullScanEnumFails
    \/ FullScanInterrupted
    \/ Tick
    \/ TickEnumFails
    \/ TickInterrupted
    \/ Interrupt

\* the program as main runs it: one call of start_monitoring
Spec == Init /\ [][Next]_vars

\* start_monitoring is not running: it has returned (the loop was stopped)
\* or an exception has left it
Returned == pc \in {"stopped", "interrupted", "crashed"}

\* start_monitoring called again on the same sorter, by whoever holds it:
\* _scan_and_sort_existing_files runs again, existing_files kept, and the
\* loop is entered again.  The calls are counted up to MaxCalls.
Restart == Returned /\ calls < MaxCalls /\ calls' = calls + 1 /\ RunFullScan

RestartEnumFails == Returned /\ calls < MaxCalls /\ calls' = calls + 1 /\ ScanEnumFails

RestartInterrupted ==
    Returned /\ calls < MaxCalls /\ calls' = calls + 1 /\ RunFullScanInterrupted

ArriveFew == ArriveUpTo(MaxItemsRestart)

NextRestart ==
    \/ ArriveFew
    \/ Unlock
    \/ FullScan
    \/ FullScanEnumFails
    \/ FullScanInterrupted
    \/ Tick
    \/ TickEnumFails
    \/ TickInterrupted
    \/ Interrupt
    \/ Restart
    \/ RestartEnumFails
    \/ RestartInterrupted

\* the sorter as an object: start_monitoring may be called again
SpecRestart == Init /\ [][NextRestart]_vars

---------------------------------------------------------------------------
(* _get_file_category on its own: it reads nothing but the name it is      *)
(* given and self.categories, so it is called here on names of every       *)
(* shape: each configured extension, upper case, several dots, no dot, a   *)
(* dot at the end, a dot at the beginning only.                            *)

ConfiguredExtensions == UNION {categories[c] : c \in CategoryNames}

ClassifierPrefixes == {"", "a", "A.b"}

ClassifierTails ==
    ConfiguredExtensions \cup {"", ".", ".xyz", ".PNG", ".Pdf", ".tar.GZ", "png", ".png."}

ClassifierNames == {p \o s : p \in ClassifierPrefixes, s \in ClassifierTails} \ {"", "."}

InitClassify ==
    /\ SorterInit
    /\ cl_name \in ClassifierNames
    /\ cl_ret = ""
    /\ CleanerInit(NoTarget, FALSE)

Classify ==
    /\ cl_ret = ""
    /\ cl_ret' = _get_file_category(cl_name)
    /\ UNCHANGED <<cl_name, sorterVars, cleanerVars>>

SpecClassify == InitClassify /\ [][Classify]_vars

---------------------------------------------------------------------------
(* The file cleaner, src/file_cleaner.py.                                  *)
(*   target         the path named on the command line: whether it      *)
(*                  exists, whether it is a directory (isdir), whether the *)
(*                  system lets the program list it (listable) and reach   *)
(*                  its entries (searchable), and its entries              *)
(*                  name |-> [kind, locked]                                *)
(*   user_confirms  whether the user at the terminal means to go ahead     *)
(*   cleaner_pc     start      main has not scanned yet                    *)
(*                  nofiles    main returned: nothing to delete            *)
(*                  listed     the files are displayed, confirmation next  *)
(*                  cancelled  main returned: "Operation cancelled."       *)
(*                  deleting   in the loop of delete_files                 *)
(*                  done       main printed the results                    *)
(*   files          the list get_files_in_directory returned               *)
(*   idx            the position in files delete_files is at               *)
(*   successful, failed   the counters of delete_files                     *)
(*   attempted      the names delete_files has called unlink on, in order  *)
(*   deleted        the entries those calls removed                        *)

CleanerFileNames == {"x.txt", "y.txt", "z.txt"}
CleanerFolderNames == {"sub"}
CleanerNames == CleanerFileNames \cup CleanerFolderNames

CleanerEntry(n, locked) ==
    [kind |-> IF n \in CleanerFolderNames THEN "dir" ELSE "file", locked |-> locked]

\* the paths main is run on: a missing path, a regular file, or a
\* directory holding some of the names, some of the files refusing to be
\* deleted, the directory itself listable or not, searchable or not
CleanerTargets ==
    {NoTarget} \cup
    {[exists |-> TRUE, isdir |-> FALSE, listable |-> FALSE, searchable |-> FALSE,
      entries |-> Empty]} \cup
    {[exists |-> TRUE, isdir |-> TRUE, listable |-> l, searchable |-> s,
      entries |-> [n \in SL[1] |-> CleanerEntry(n, n \in SL[2])]] :
        SL \in {<<S, L>> \in (SUBSET CleanerNames) \X (SUBSET CleanerFileNames) :
                  L \subseteq S},
        l \in BOOLEAN, s \in BOOLEAN}

\* get_files_in_directory: the entries that are regular files, in the
\* order iterdir gives them.  The empty list when anything raises (except
\* Exception, lines 38-40): the path does not exist (line 29) or is not a
\* directory (line 32), iterdir is refused (the directory cannot be
\* listed), or is_file is refused on an entry (the directory cannot be
\* searched), all at line 35.
get_files_in_directory(directory) ==
    IF ~directory.exists \/ ~directory.isdir \/ ~directory.listable THEN {<<>>}
    ELSE IF ~directory.searchable /\ DOMAIN directory.entries # {} THEN {<<>>}
    ELSE Perms({n \in DOMAIN directory.entries : directory.entries[n].kind = "file"})

\* confirm_deletion: prints the warning; its loop returns True at once
confirm_deletion(directory, file_count) == TRUE

\* main, lines 107-112
GetFiles ==
    /\ cleaner_pc = "start"
    /\ \E l \in get_files_in_directory(target) :
         /\ files' = l
         /\ cleaner_pc' = IF l = <<>> THEN "nofiles" ELSE "listed"
    /\ UNCHANGED <<target, user_confirms, idx, successful, failed, attempted, deleted>>
    /\ UNCHANGED <<sorterVars, classifierVars>>

\* main, lines 119-125, and the first two lines of delete_files
Confirm ==
    /\ cleaner_pc = "listed"
    /\ IF confirm_deletion(target, Len(files))
       THEN /\ cleaner_pc' = "deleting"
            /\ idx' = 1
            /\ successful' = 0
            /\ failed' = 0
       ELSE /\ cleaner_pc' = "cancelled"
            /\ UNCHANGED <<idx, successful, failed>>
    /\ UNCHANGED <<target, user_confirms, files, attempted, deleted>>
    /\ UNCHANGED <<sorterVars, classifierVars>>

\* Path.unlink on an entry: it removes a regular file; FileNotFoundError
\* when the entry is gone, PermissionError when the system refuses, and an
\* error too on a directory.  delete_files catches each and counts it.
UnlinkOutcome(directory, n) ==
    IF n \in DOMAIN directory.entries /\ directory.entries[n].kind = "file"
       /\ ~directory.entries[n].locked
    THEN "deleted" ELSE "failed"

\* (for C18) delete_files with its try around the loop: the first unlink
\* that fails is counted and ends the loop
DeleteFileStopsAtFailure ==
    /\ cleaner_pc = "deleting"
    /\ idx <= Len(files)
    /\ LET n == files[idx]
           outcome == UnlinkOutcome(target, n)
       IN  /\ attempted' = Append(attempted, n)
           /\ IF outcome = "deleted"
              THEN /\ target' = [target EXCEPT !.entries = Del(@, n)]
                   /\ deleted' = deleted \cup {[name |-> n, kind |-> target.entries[n].kind]}
                   /\ successful' = successful + 1
                   /\ idx' = idx + 1
                   /\ UNCHANGED failed
              ELSE /\ failed' = failed + 1
                   /\ idx' = Len(files) + 1
                   /\ UNCHANGED <<target, deleted, successful>>
    /\ UNCHANGED <<user_confirms, cleaner_pc, files>>
    /\ UNCHANGED <<sorterVars, classifierVars>>

\* one turn of the loop of delete_files
DeleteFile ==
    /\ cleaner_pc = "deleting"
    /\ idx <= Len(files)
    /\ LET n == files[idx]
           outcome == UnlinkOutcome(target, n)
       IN  /\ attempted' = Append(attempted, n)
           /\ IF outcome = "deleted"
              THEN /\ target' = [target EXCEPT !.entries = Del(@, n)]
                   /\ deleted' = deleted \cup {[name |-> n, kind |-> target.entries[n].kind]}
                   /\ successful' = successful + 1
                   /\ idx' = idx + 1
                   /\ UNCHANGED failed
              ELSE /\ failed' = failed + 1
                   /\ idx' = idx + 1
                   /\ UNCHANGED <<target, deleted, successful>>
    /\ UNCHANGED <<user_confirms, cleaner_pc, files>>
    /\ UNCHANGED <<sorterVars, classifierVars>>

\* delete_files returns its two counters; main prints them (lines 126-137)
Report ==
    /\ cleaner_pc = "deleting"
    /\ idx > Len(files)
    /\ cleaner_pc' = "done"
    /\ UNCHANGED <<target, user_confirms, files, idx, successful, failed, attempted, deleted>>
    /\ UNCHANGED <<sorterVars, classifierVars>>

\* somebody else removes a file of the directory after it was listed
CleanerVanish ==
    /\ cleaner_pc \in {"listed", "deleting"}
    /\ \E n \in DOMAIN target.entries :
         /\ target.entries[n].kind = "file"
         /\ target' = [target EXCEPT !.entries = Del(@, n)]
    /\ UNCHANGED <<user_confirms, cleaner_pc, files, idx, successful, failed, attempted, deleted>>
    /\ UNCHANGED <<sorterVars, classifierVars>>

InitCleaner ==
    /\ SorterInit
    /\ cl_name = ""
    /\ cl_ret = ""
    /\ \E directory \in CleanerTargets, inclined \in BOOLEAN :
         CleanerInit(directory, inclined)

NextCleaner ==
    \/ GetFiles
    \/ Confirm
    \/ DeleteFile
    \/ Report
    \/ CleanerVanish

SpecCleaner == InitCleaner /\ [][NextCleaner]_vars

---------------------------------------------------------------------------
(* The monitoring loop over a Zip_Files directory that earlier runs have   *)
(* filled: several archives, some extracted beside them, some that the     *)
(* system refuses to delete.                                               *)

ReconcileArchives == {"a.zip", "a.rar", "b.zip"}
ReconcileFolders == {"a", "b"}

\* what Zip_Files may hold when the loop is entered
ReconcileDirs ==
    {[n \in S |-> NewItem(IF n \in ReconcileFolders THEN "dir" ELSE "file", n, 1, n \in L, TRUE)] :
        <<S, L>> \in {<<S, L>> \in (SUBSET (ReconcileArchives \cup ReconcileFolders))
                                    \X (SUBSET ReconcileArchives) : L \subseteq S}}

\* start_monitoring has run its full scan on a watched directory with
\* nothing to sort at the top level
InitReconcile ==
    /\ \E zips \in ReconcileDirs :
         fs = [d \in Dirs |->
                 IF d = Top THEN [b \in Buckets |-> NewItem("dir", b, 0, FALSE, TRUE)]
                 ELSE IF d = "Zip_Files" THEN zips ELSE Empty]
    /\ existing_files = {}
    /\ pc = "idle"
    /\ made = [n \in PoolNames |-> 0]
    /\ last = NoPass
    /\ handed = [n \in FileNames |-> 0]
    /\ calls = 1
    /\ cl_name = ""
    /\ cl_ret = ""
    /\ CleanerInit(NoTarget, FALSE)

SpecReconcile == InitReconcile /\ [][Tick]_vars

---------------------------------------------------------------------------
(* start_monitoring on a watched directory that holds stray folders, some  *)
(* with a dot in their name, while Rogue_Folders holds folders quarantined *)
(* by earlier runs under the same names.                                   *)

StrayFolders == {"a", "v1.2"}
QuarantinedNames == {"a", "a_1", "v1.2", "v1.2_1", "v1_1.2"}

InitQuarantine ==
    /\ \E stray \in SUBSET StrayFolders, locked \in SUBSET StrayFolders,
          blind \in SUBSET StrayFolders, rogue \in SUBSET QuarantinedNames :
         /\ locked \subseteq stray
         /\ blind \subseteq locked
         /\ fs = [d \in Dirs |->
                    IF d = Top
                    THEN [n \in Buckets \cup stray |->
                            IF n \in Buckets THEN NewItem("dir", n, 0, FALSE, TRUE)
                            ELSE NewItem("dir", n, 1, n \in locked, n \notin blind)]
                    ELSE IF d = "Rogue_Folders"
                         THEN [n \in rogue |-> NewItem("dir", n, 0, FALSE, TRUE)]
                         ELSE Empty]
    /\ existing_files = {}
    /\ pc = "start"
    /\ made = [n \in PoolNames |-> 0]
    /\ last = NoPass
    /\ handed = [n \in FileNames |-> 0]
    /\ calls = 0
    /\ cl_name = ""
    /\ cl_ret = ""
    /\ CleanerInit(NoTarget, FALSE)

SpecQuarantine == InitQuarantine /\ [][FullScan \/ Tick]_vars

---------------------------------------------------------------------------
(* Vocabulary of the properties. *)

Range(m) == {m[x] : x \in DOMAIN m}

AllItems(f) == UNION {Range(f[d]) : d \in Dirs}

\* a pass has just ended: last describes it and fs is what it left
AfterFullScan == last.op = "full"
AfterTick == last.op = "incr"

\* the startup full scan: nothing was tracked when it began
AfterStartupScan == AfterFullScan /\ last.tracked = {}

\* name with the counter k before its extension
Numbered(name, k) == StemOf(name) \o "_" \o ToStr(k) \o SuffixOf(name)

\* the directory names the spec reserves or exempts: the categories, the
\* uncategorized bucket, the quarantine bucket, the ignore list
ReservedNames ==
    {"Images", "Zip_Files", "STEP_Files", "3MF_Files", "PDFs", "Others", "Rogue_Folders",
     "gcode drop"}

FileCalls == {n \in DOMAIN last.res : last.res[n].item.kind = "file"}

\* the extension as the spec words it: the text after the last '.',
\* lower-cased; empty when there is no '.' or the name ends in one
TextAfterLastDot(name) ==
    LET i == RFindDot(name)
    IN  IF i = 0 \/ i = Len(name) THEN "" ELSE Lower(SubSeq(name, i + 1, Len(name)))

DisjointCategories ==
    \A c, d \in CategoryNames : c # d => categories[c] \cap categories[d] = {}


---------------------------------------------------------------------------
(* C1.  Placing a file never overwrites: _move_file puts a file named n in  *)
(* the bucket under n when n is free there, else under stem_k ext for the  *)
(* smallest k >= 1 that is free; everything the bucket held when           *)
(* _move_file was called is there unchanged when it returns.  A second     *)
(* a.png placed where only a.png is becomes a_1.png.  A move the system    *)
(* refuses writes nothing but a copy of the file, when the file can be     *)
(* read, and only under that free name.                                    *)
C1_PlaceNeverOverwrites ==
    \A n \in FileCalls :
        LET r == last.res[n]
            taken == DOMAIN r.pre
            written == (DOMAIN r.post) \ taken
        IN  /\ \A x \in taken : x \in DOMAIN r.post /\ r.post[x] = r.pre[x]
            /\ IF r.ok
               THEN written = {r.dest} /\ r.post[r.dest] = r.item
               ELSE \A d \in written : r.item.readable /\ r.post[d] = CopyOf(r.item)
            /\ \A d \in written :
                 /\ written = {d}
                 /\ IF n \notin taken THEN d = n
                    ELSE \E k \in 1..Cardinality(taken) :
                            /\ d = Numbered(n, k)
                            /\ \A j \in 1..(k - 1) : Numbered(n, j) \in taken
                 /\ (n = "a.png" /\ taken = {"a.png"}) => d = "a_1.png"

\* a file was placed in a bucket that held its name, and became a_1.png
C1_Witness ==
    \E n \in FileCalls :
        /\ last.res[n].ok
        /\ n \in DOMAIN last.res[n].pre
        /\ last.res[n].dest = "a_1.png"

(* C2.  A file that arrives at the top level under a name the sorter has   *)
(* already filed (the first one still sits in its category directory) is   *)
(* moved by the next incremental scan into that directory too, beside the  *)
(* first one.                                                              *)
C2_SameNameFiledAgain ==
    AfterTick =>
        \A n \in DOMAIN last.listed :
            LET it == last.listed[n]
                c == _get_file_category(n)
            IN  (/\ it.kind = "file" /\ ~it.locked
                 /\ n \in last.tracked
                 /\ c # "Other"
                 /\ n \in DOMAIN fs[c] /\ fs[c][n].origin = n /\ fs[c][n] # it)
                => /\ n \notin DOMAIN fs[Top]
                   /\ it \in Range(fs[c])

(* C3.  The startup full scan moves every top-level file of no category    *)
(* into Others/.                                                           *)
C3_FullScanFilesUncategorized ==
    AfterStartupScan =>
        \A n \in DOMAIN last.listed :
            LET it == last.listed[n]
            IN  (it.kind = "file" /\ ~it.locked /\ _get_file_category(n) = "Other")
                => /\ n \notin DOMAIN fs[Top]
                   /\ it \in Range(fs["Others"])

(* C4.  After the startup full scan every top-level file of a category    *)
(* that was still there when the scan came to it was handed to _move_file  *)
(* and, when the move did not fail, is in that                             *)
(* category's directory and no longer at the top level (a.png in Images/,  *)
(* a.zip in Zip_Files/); when no move failed, no file of a category is     *)
(* left at the top level.                                                  *)
C4_FullScanFilesCategorized ==
    AfterStartupScan =>
        /\ \A n \in DOMAIN last.listed :
             LET it == last.listed[n]
                 c == _get_file_category(n)
             IN  (it.kind = "file" /\ c # "Other" /\ n \notin last.early)
                 => /\ n \in DOMAIN last.res
                    /\ last.res[n].ok
                       => /\ n \notin DOMAIN fs[Top]
                          /\ it \in Range(fs[c])
                          /\ n = "a.png" => it \in Range(fs["Images"])
                          /\ n = "a.zip" => it \in Range(fs["Zip_Files"])
        /\ (\A m \in DOMAIN last.res : last.res[m].ok)
           => \A n \in DOMAIN fs[Top] :
                 fs[Top][n].kind = "file" => _get_file_category(n) = "Other"

\* the startup scan found a.png at the top level and put it in Images/
C4_Witness ==
    /\ AfterStartupScan
    /\ "a.png" \in DOMAIN last.listed
    /\ last.listed["a.png"].kind = "file"
    /\ last.listed["a.png"] \in Range(fs["Images"])

(* C5.  Archive reconciliation.  Of what Zip_Files holds when              *)
(* _cleanup_redundant_zips starts, an archive file is deleted if and only  *)
(* if a directory named as its stem is beside it; directories and every    *)
(* other file stay as they were.                                           *)
C5_ArchiveReconciliation ==
    AfterTick =>
        \A n \in DOMAIN last.zipBefore :
            LET it == last.zipBefore[n]
                kept == n \in DOMAIN fs["Zip_Files"] /\ fs["Zip_Files"][n] = it
                gone == n \notin DOMAIN fs["Zip_Files"]
                archive == it.kind = "file" /\ Lower(SuffixOf(n)) \in ArchiveExtensions
                sibling == /\ StemOf(n) \in DOMAIN last.zipBefore
                           /\ last.zipBefore[StemOf(n)].kind = "dir"
            IN  /\ kept \/ gone
                /\ gone <=> (archive /\ sibling)
                /\ (n = "a.zip" /\ "a" \notin DOMAIN last.zipBefore) => kept

(* C6.  A top-level directory named as a category, as Others or            *)
(* Rogue_Folders, or as an entry of the ignore list is never moved by a    *)
(* pass, in whatever order the entries come, and is never handed to a      *)
(* mover: unless the outside world deleted it meanwhile, it is where it    *)
(* was; nothing in Rogue_Folders was created under such a name.            *)
C6_ReservedNeverQuarantined ==
    /\ \A n \in (DOMAIN last.listed) \ last.early :
         (last.listed[n].kind = "dir" /\ n \in ReservedNames)
         => /\ n \in DOMAIN fs[Top]
            /\ fs[Top][n] = last.listed[n]
            /\ n \notin DOMAIN last.res
    /\ \A x \in DOMAIN fs["Rogue_Folders"] :
         fs["Rogue_Folders"][x].origin \notin ReservedNames

\* a full scan met the ignored folder gcode drop and a stray folder: the
\* stray folder is in quarantine, gcode drop is where it was
C6_Witness ==
    /\ AfterFullScan
    /\ "gcode drop" \in DOMAIN last.listed
    /\ "gcode drop" \in DOMAIN fs[Top]
    /\ \E n \in DOMAIN last.res :
         last.res[n].item.kind = "dir" /\ last.res[n].ok

(* C7.  A top-level directory that is neither reserved nor ignored and is  *)
(* there when an incremental scan starts is moved into Rogue_Folders by    *)
(* that scan.                                                              *)
C7_NewFolderQuarantined ==
    AfterTick =>
        \A n \in DOMAIN last.listed :
            LET it == last.listed[n]
            IN  (it.kind = "dir" /\ ~it.locked /\ n \notin ReservedNames)
                => /\ n \notin DOMAIN fs[Top]
                   /\ it \in Range(fs["Rogue_Folders"])

(* C8.  Idempotence of the full scan: when _scan_and_sort_existing_files   *)
(* runs again on the same sorter, nothing having changed in the            *)
(* directories since its previous run ended and nothing being deleted from *)
(* outside while it runs, it moves no file and no folder: the file system  *)
(* after the second run is the file system after the first.                *)
C8_SecondFullScanMovesNothing ==
    [][(/\ pc = "stopped"
        /\ last.op = "full"
        /\ last'.op = "full"
        /\ AllItems(fs') = AllItems(fs)) => fs' = fs]_vars

(* C9.  Per-item failure isolation.  A mover that does not bring the item *)
(* into the bucket (the system refuses, the source has vanished) returns   *)
(* False, and only then; no exception ends the pass, and every other item  *)
(* of the pass is still processed: each listed file that was not tracked   *)
(* and is there when the pass comes to it is tracked afterwards, and each  *)
(* item the pass has to move was handed to its mover.                      *)
C9_FailureIsolation ==
    (AfterFullScan \/ AfterTick) =>
        /\ ~last.raised
        /\ pc \in {"idle", "stopped"}
        /\ \A n \in (DOMAIN last.listed) \ last.early :
             LET it == last.listed[n]
             IN  /\ (it.kind = "file" /\ n \notin last.tracked)
                    => /\ n \in existing_files
                       /\ (AfterTick \/ _get_file_category(n) # "Other")
                          => n \in DOMAIN last.res
                 /\ (it.kind = "dir" /\ AfterFullScan /\ n \notin ReservedNames)
                    => n \in DOMAIN last.res
        /\ \A n \in DOMAIN last.res :
             LET r == last.res[n]
             IN  /\ r.ok <=> r.item \in Range(r.post)
                 /\ r.item.locked => ~r.ok
                 /\ r.item \notin Range(r.pre)

\* one mover failed and another item of the same pass was moved
C9_Witness ==
    /\ AfterFullScan \/ AfterTick
    /\ \E n, m \in DOMAIN last.res : ~last.res[n].ok /\ last.res[m].ok

(* C10.  When the watched directory cannot be listed in a turn of the      *)
(* loop, only that turn is lost: monitoring goes on with the next turn.    *)
C10_EnumFailureKeepsMonitoring == last.op = "tickfail" => pc = "idle"

(* C11.  Classification depends on the file name only.  As claimed: the  *)
(* extension is the text after the last '.', lower-cased, and is empty     *)
(* when the name has no '.' or ends in '.'; _get_file_category returns the *)
(* one category whose set holds it, "Other" when no set does; the sets are *)
(* pairwise disjoint.                                                      *)
C11_ClassifyByLastDot ==
    cl_ret # "" =>
        LET e == TextAfterLastDot(cl_name)
            hits == IF e = "" THEN {} ELSE {c \in CategoryNames : ("." \o e) \in categories[c]}
        IN  /\ \A c \in hits : cl_ret = c
            /\ hits = {} => cl_ret = "Other"
            /\ DisjointCategories

(* C11, amended.  The same, the extension being empty also when the last  *)
(* '.' of the name is its first character (.png, .zip: a name that is all  *)
(* extension has none).                                                    *)
C11_ClassifyBySuffix ==
    cl_ret # "" =>
        LET i == RFindDot(cl_name)
            e == IF i = 1 THEN "" ELSE TextAfterLastDot(cl_name)
            hits == IF e = "" THEN {} ELSE {c \in CategoryNames : ("." \o e) \in categories[c]}
        IN  /\ \A c \in hits : cl_ret = c
            /\ hits = {} => cl_ret = "Other"
            /\ cl_ret \in CategoryNames => cl_ret \in hits
            /\ DisjointCategories

\* a name with two dots and an upper-case extension was classified
C11_Witness == cl_name = "A.b.PNG" /\ cl_ret = "Images"

(* C12.  The file cleaner deletes only with the user's confirmation:      *)
(* confirm_deletion returns True exactly when the user confirms; when the  *)
(* user does not, main deletes nothing and ends with "Operation            *)
(* cancelled.".                                                            *)
C12_DeletesOnlyIfConfirmed ==
    /\ ~user_confirms => deleted = {}
    /\ cleaner_pc \in {"cancelled", "deleting", "done"}
       => (cleaner_pc = "cancelled" <=> ~user_confirms)

(* C13.  A failed deletion is isolated: every archive of Zip_Files that   *)
(* has its extracted folder beside it and that the system lets go is       *)
(* deleted by the run of _cleanup_redundant_zips, whatever happens to the  *)
(* other archives in that run.                                             *)
C13_DeletionFailureIsolated ==
    AfterTick =>
        \A n \in DOMAIN last.zipBefore :
            LET it == last.zipBefore[n]
            IN  (/\ it.kind = "file" /\ ~it.locked
                 /\ Lower(SuffixOf(n)) \in ArchiveExtensions
                 /\ StemOf(n) \in DOMAIN last.zipBefore
                 /\ last.zipBefore[StemOf(n)].kind = "dir")
                => n \notin DOMAIN fs["Zip_Files"]

(* C14.  Incremental sorting gets every new file.  At the end of an       *)
(* incremental scan, every regular file that was at the top level under a  *)
(* name not yet tracked, and was not deleted from outside before the scan  *)
(* came to it, has been handed to _move_file, aimed at its                 *)
(* category's directory, or Others/ when it has no category, and its name  *)
(* is tracked; when no I/O failure hit it (the system did not refuse the   *)
(* move, the file did not vanish) it has left the top level and is in that *)
(* directory, unless it is an archive the reconciler of the same tick      *)
(* deleted there.                                                          *)
C14_NewFilesSorted ==
    AfterTick =>
        \A n \in DOMAIN last.listed :
            LET it == last.listed[n]
                bucket == BucketOf(_get_file_category(n))
            IN  (it.kind = "file" /\ n \notin last.tracked /\ n \notin last.early)
                => /\ n \in existing_files
                   /\ n \in DOMAIN last.res
                   /\ last.res[n].bucket = bucket
                   /\ (~it.locked /\ it \in AllItems(fs)) => last.res[n].ok
                   /\ last.res[n].ok
                      => /\ n \notin DOMAIN fs[Top]
                         /\ \/ it \in Range(fs[bucket])
                            \/ /\ bucket = "Zip_Files"
                               /\ last.res[n].dest \in last.zipDeleted

\* a tick found a new file of no category and a new image: the one is in
\* Others/, the other in Images/
C14_Witness ==
    /\ AfterTick
    /\ \E n, m \in DOMAIN last.listed :
         /\ n \notin last.tracked /\ m \notin last.tracked
         /\ last.listed[n].kind = "file" /\ last.listed[m].kind = "file"
         /\ last.listed[n] \in Range(fs["Others"])
         /\ last.listed[m] \in Range(fs["Images"])

(* C15.  As claimed: the tracked-name set only grows, no step removes a   *)
(* name from existing_files; and after the startup full scan it holds the  *)
(* name of every regular file the scan listed at the top level, moved, not *)
(* moved because the move failed, or left in place for want of a category. *)
C15_TrackedOnlyGrows ==
    [][/\ existing_files \subseteq existing_files'
       /\ (last'.op = "full" /\ last'.tracked = {})
          => \A n \in DOMAIN last'.listed :
                last'.listed[n].kind = "file" => n \in existing_files']_vars

(* C15, amended.  The same, of every regular file the scan listed that    *)
(* was still there when the scan came to it: the name of a file deleted    *)
(* from outside between the listing and the scan's test of it is not       *)
(* tracked.                                                                *)
C15_TrackedOnlyGrowsExamined ==
    [][/\ existing_files \subseteq existing_files'
       /\ (last'.op = "full" /\ last'.tracked = {})
          => \A n \in (DOMAIN last'.listed) \ last'.early :
                last'.listed[n].kind = "file" => n \in existing_files']_vars

\* the startup scan listed a file it could not move and a file of no
\* category: both are still at the top level and both names are tracked
C15_Witness ==
    /\ AfterStartupScan
    /\ \E n, m \in DOMAIN last.listed :
         /\ n \in DOMAIN last.res /\ ~last.res[n].ok /\ last.res[n].item.kind = "file"
         /\ last.listed[m].kind = "file" /\ _get_file_category(m) = "Other"
         /\ {n, m} \subseteq DOMAIN fs[Top]
         /\ {n, m} \subseteq existing_files

(* C16.  In an incremental tick the reconciler runs once, after every new *)
(* item has been placed, also when there is none.  What it examines is     *)
(* Zip_Files as the placements left it: an archive placed in this tick is  *)
(* among it, and nothing that was in Zip_Files when a file was placed      *)
(* there had been deleted before the last placement.  It goes through all  *)
(* of it unless a deletion fails, and it changes Zip_Files only: there,    *)
(* exactly the entries it deleted are missing, and every other bucket      *)
(* holds what the placements put in it.                                    *)
C16_ReconcilerOncePerTick ==
    AfterTick =>
        /\ \A n \in DOMAIN last.res :
             LET r == last.res[n]
             IN  IF r.bucket = "Zip_Files"
                 THEN /\ \A x \in DOMAIN r.pre :
                           x \in DOMAIN last.zipBefore /\ last.zipBefore[x] = r.pre[x]
                      /\ r.ok => /\ r.dest \in DOMAIN last.zipBefore
                                 /\ last.zipBefore[r.dest] = r.item
                 ELSE \A x \in DOMAIN r.post :
                           x \in DOMAIN fs[r.bucket] /\ fs[r.bucket][x] = r.post[x]
        /\ last.zipSeen \subseteq DOMAIN last.zipBefore
        /\ ~last.zipError => last.zipSeen = DOMAIN last.zipBefore
        /\ last.zipDeleted \subseteq last.zipSeen
        /\ DOMAIN fs["Zip_Files"] = (DOMAIN last.zipBefore) \ last.zipDeleted
        /\ \A x \in DOMAIN fs["Zip_Files"] : fs["Zip_Files"][x] = last.zipBefore[x]

\* a tick placed two new files, one of them an archive that went to
\* Zip_Files beside its extracted folder, and the reconciler of that tick
\* deleted the archive
C16_Witness ==
    /\ AfterTick
    /\ Cardinality(DOMAIN last.res) > 1
    /\ \E n \in DOMAIN last.res :
         /\ last.res[n].ok /\ last.res[n].bucket = "Zip_Files"
         /\ last.res[n].dest \in last.zipDeleted

(* C17.  Quarantine never merges or overwrites.  _move_folder_to_rogue   *)
(* puts folder N in Rogue_Folders under N when N is free there, else under *)
(* N_k for the smallest k >= 1 that is free, the counter after the whole   *)
(* name even when the name has a dot (v1.2 becomes v1.2_1); everything     *)
(* Rogue_Folders held when it was called is there unchanged afterwards.    *)
(* A move the system refuses writes nothing but a copy of the folder, when *)
(* the folder can be read, and only under that free name.                  *)
C17_QuarantineNeverOverwrites ==
    \A n \in DOMAIN last.res :
        LET r == last.res[n]
            taken == DOMAIN r.pre
            written == (DOMAIN r.post) \ taken
        IN  r.item.kind = "dir" =>
              /\ r.bucket = "Rogue_Folders"
              /\ \A x \in taken : x \in DOMAIN r.post /\ r.post[x] = r.pre[x]
              /\ IF r.ok
                 THEN written = {r.dest} /\ r.post[r.dest] = r.item
                 ELSE \A d \in written : r.item.readable /\ r.post[d] = CopyOf(r.item)
              /\ \A d \in written :
                   /\ written = {d}
                   /\ IF n \notin taken THEN d = n
                      ELSE \E k \in 1..Cardinality(taken) :
                              /\ d = n \o "_" \o ToStr(k)
                              /\ \A j \in 1..(k - 1) : (n \o "_" \o ToStr(j)) \in taken
                   /\ (n = "v1.2" /\ taken = {"v1.2"}) => d = "v1.2_1"

\* the folder v1.2 was quarantined where v1.2 and v1.2_1 were already
C17_Witness ==
    /\ AfterFullScan
    /\ "v1.2" \in DOMAIN last.res
    /\ last.res["v1.2"].ok
    /\ {"v1.2", "v1.2_1"} \subseteq DOMAIN last.res["v1.2"].pre
    /\ last.res["v1.2"].dest = "v1.2_2"

(* C18.  delete_files calls unlink on every file of its list once, in     *)
(* order, a failure not stopping it: when it returns, the names attempted  *)
(* are the list, successful + failed is the length of the list and         *)
(* successful is the number of entries it removed.  No subdirectory of the *)
(* directory is in the list, and none is removed.                          *)
C18_DeleteFilesCounts ==
    /\ \A i \in 1..Len(files) : ~is_dir(target.entries, files[i])
    /\ files # <<>> => target.isdir /\ target.listable /\ target.searchable
    /\ \A d \in deleted : d.kind = "file" /\ d.name \notin DOMAIN target.entries
    /\ cleaner_pc \in {"deleting", "done"} =>
         /\ idx \in 1..(Len(files) + 1)
         /\ attempted = SubSeq(files, 1, idx - 1)
         /\ successful + failed = Len(attempted)
         /\ successful = Cardinality(deleted)
         /\ {d.name : d \in deleted} \subseteq {attempted[i] : i \in 1..Len(attempted)}
    /\ cleaner_pc = "done" =>
         /\ attempted = files
         /\ successful + failed = Len(files)

\* delete_files has returned from a list in which a file it could not
\* delete came before one it deleted; the subdirectory is still there
C18_Witness ==
    /\ cleaner_pc = "done"
    /\ is_dir(target.entries, "sub")
    /\ failed > 0
    /\ \E i, j \in 1..Len(files) :
         /\ i < j
         /\ files[i] \notin {d.name : d \in deleted}
         /\ files[j] \in {d.name : d \in deleted}

(* C19.  A name is processed at most once in the life of a sorter:     *)
(* whatever the passes and however many times start_monitoring is called,  *)
(* _move_file is called on each file name at most once.  No pass hands     *)
(* _move_file a name that was tracked when the pass began, and every name  *)
(* a pass hands over is tracked when the pass ends; a top-level file whose *)
(* name is tracked is left where it is by every later pass, full or        *)
(* incremental (what is deleted from outside meanwhile aside): a file      *)
(* whose move failed, a file of no category the full scan left in place, a *)
(* new file under a name filed before.                                     *)
C19_AtMostOncePerName ==
    /\ \A n \in DOMAIN handed : handed[n] <= 1
    /\ (AfterFullScan \/ AfterTick) =>
        /\ \A n \in FileCalls : n \notin last.tracked /\ n \in existing_files
        /\ \A n \in (DOMAIN last.listed) \ last.early :
             (last.listed[n].kind = "file" /\ n \in last.tracked)
             => /\ n \notin DOMAIN last.res
                /\ n \in DOMAIN fs[Top]
                /\ fs[Top][n] = last.listed[n]

\* an item and its copies are one thing: the same kind, name of origin and
\* serial
Ident(it) == <<it.kind, it.origin, it.serial>>

Idents(f) == {Ident(it) : it \in AllItems(f)}

\* the places (directory, entry name) where f holds the thing id
PlacesOf(f, id) ==
    UNION {{<<d, n>> : n \in {m \in DOMAIN f[d] : Ident(f[d][m]) = id}} : d \in Dirs}

\* the thing id, gone after the pass described by l, was not lost by the
\* sorter or was lost as the claim allows: it was an archive file of
\* Zip_Files with a directory named as its stem beside it, which the
\* reconciler deleted; or the outside world deleted it during the pass,
\* before the loop body tested it or before the mover renamed it
LostAsAllowed(l, id) ==
    \/ \E n \in l.zipDeleted :
         /\ Ident(l.zipBefore[n]) = id
         /\ l.zipBefore[n].kind = "file"
         /\ Lower(SuffixOf(n)) \in ArchiveExtensions
         /\ is_dir(l.zipBefore, StemOf(n))
    \/ \E n \in l.late : Ident(l.res[n].item) = id
    \/ \E n \in l.early : Ident(l.listed[n]) = id

\* what a bucket held before the step it holds after it, under the same
\* name, the archives the reconciler deleted excepted
BucketsKept ==
    \A d \in Buckets : \A n \in DOMAIN fs[d] :
        \/ n \in DOMAIN fs'[d] /\ fs'[d][n] = fs[d][n]
        \/ d = "Zip_Files" /\ n \in last'.zipDeleted

(* C20.  No data loss.  A pass of the sorter, full or incremental,         *)
(* creates nothing and destroys nothing but archive files of Zip_Files     *)
(* that have a directory named as their stem beside them (what the outside *)
(* world deleted during the pass is not the sorter's doing).  Every item   *)
(* is in exactly one place, the top level or one bucket; and what a bucket *)
(* held before the pass it holds after it, under the same name, those      *)
(* deleted archives excepted.                                              *)
C20_NoDataLoss ==
    [][last'.op \in {"full", "incr"} =>
         /\ Idents(fs') \subseteq Idents(fs)
         /\ \A id \in Idents(fs) \ Idents(fs') : LostAsAllowed(last', id)
         /\ \A id \in Idents(fs') : Cardinality(PlacesOf(fs', id)) = 1
         /\ BucketsKept]_vars

====
